---------------------------- MODULE Spec2Model ----------------------------
(***************************************************************************)
(* A model of joint_calc (src/src/python_library/joint_calc) and of the    *)
(* Grasshopper component that drives it                                    *)
(* (src/src/components/RWJC_stress_computer/code.py).                      *)
(*                                                                         *)
(* Numbers.  The program computes in floating point; the model computes in *)
(* exact rational arithmetic.  A rational is a pair <<n, d>> in lowest     *)
(* terms with d > 0.  A Vector or a Point is a triple of rationals.  A     *)
(* square root is taken only of perfect squares (the inputs are drawn from *)
(* vectors whose norms are rational); an angle of compute_angle_with is    *)
(* the pair of its cosine and its (non-negative) sine.                     *)
(*                                                                         *)
(* The geometry kernel (Rhino) is outside the repository.  What the        *)
(* program reads back from it is modelled by a few parameters of each      *)
(* face, fixed when the face is given to the program, so that the kernel   *)
(* is a function of its arguments: the same face cut by the same plane     *)
(* gives the same solid.                                                   *)
(***************************************************************************)
EXTENDS Integers, Sequences, FiniteSets, TLC

-----------------------------------------------------------------------------
(* Rational arithmetic *)

Abs(n) == IF n < 0 THEN -n ELSE n

RECURSIVE GCD(_, _)
GCD(a, b) == IF b = 0 THEN a ELSE GCD(b, a % b)

\* The rational n/d in lowest terms, d # 0.
Rat(n, d) ==
    LET g == GCD(Abs(n), Abs(d))
        s == IF d < 0 THEN -1 ELSE 1
    IN  <<(s * n) \div g, (s * d) \div g>>

I(n) == <<n, 1>>
Zero == <<0, 1>>
One == <<1, 1>>

\* the operands are in lowest terms; common factors are cancelled before the
\* products are formed, so that intermediate values stay small
RAdd(a, b) ==
    LET g == GCD(a[2], b[2])
    IN  Rat(a[1] * (b[2] \div g) + b[1] * (a[2] \div g), (a[2] \div g) * b[2])
RNeg(a) == <<-a[1], a[2]>>
RSub(a, b) == RAdd(a, RNeg(b))
RMul(a, b) ==
    LET g1 == GCD(Abs(a[1]), b[2])
        g2 == GCD(Abs(b[1]), a[2])
    IN  <<(a[1] \div g1) * (b[1] \div g2), (a[2] \div g2) * (b[2] \div g1)>>
\* a / b; the callers test b for zero first, as Python raises ZeroDivisionError
RDiv(a, b) == RMul(a, IF b[1] < 0 THEN <<-b[2], -b[1]>> ELSE <<b[2], b[1]>>)
RLt(a, b) ==
    LET g == GCD(a[2], b[2])
    IN  a[1] * (b[2] \div g) < b[1] * (a[2] \div g)
RLe(a, b) == ~RLt(b, a)
RAbs(a) == <<Abs(a[1]), a[2]>>
RMin(a, b) == IF RLt(b, a) THEN b ELSE a
RMax(a, b) == IF RLt(a, b) THEN b ELSE a

RECURSIVE ISqrtIn(_, _, _)
\* the largest s in lo..hi with s*s <= k
ISqrtIn(lo, hi, k) ==
    IF lo >= hi THEN lo
    ELSE LET mid == (lo + hi + 1) \div 2
         IN  IF mid * mid <= k THEN ISqrtIn(mid, hi, k) ELSE ISqrtIn(lo, mid - 1, k)

\* math.sqrt of a perfect square; no value (a TLC error) for any other number,
\* so an input outside the exact domain is never mistaken for a result
ISqrt(k) ==
    LET s == ISqrtIn(0, IF k > 46340 THEN 46340 ELSE k, k)
    IN  CHOOSE r \in {x \in {s} : x * x = k} : TRUE

RSqrt(a) == <<ISqrt(a[1]), ISqrt(a[2])>>

RECURSIVE RSum(_)
RSum(s) == IF s = <<>> THEN Zero ELSE RAdd(Head(s), RSum(Tail(s)))

-----------------------------------------------------------------------------
(* geometry.Vector and geometry.Point *)

Vec(x, y, z) == <<I(x), I(y), I(z)>>
ZeroVector == Vec(0, 0, 0)

mul(v, k) == <<RMul(v[1], k), RMul(v[2], k), RMul(v[3], k)>>
add(v, w) == <<RAdd(v[1], w[1]), RAdd(v[2], w[2]), RAdd(v[3], w[3])>>
sub(v, w) == <<RSub(v[1], w[1]), RSub(v[2], w[2]), RSub(v[3], w[3])>>
truediv(v, k) == <<RDiv(v[1], k), RDiv(v[2], k), RDiv(v[3], k)>>
neg(v) == mul(v, I(-1))

dot(v, w) == RAdd(RAdd(RMul(v[1], w[1]), RMul(v[2], w[2])), RMul(v[3], w[3]))

cross(v, w) ==
    <<RSub(RMul(v[2], w[3]), RMul(v[3], w[2])),
      RSub(RMul(v[3], w[1]), RMul(v[1], w[3])),
      RSub(RMul(v[1], w[2]), RMul(v[2], w[1]))>>

norm_sq(v) == dot(v, v)
norm(v) == RSqrt(norm_sq(v))

\* the angle of a cosine, as <<cos, sin>>
angle_of(value) == <<value, RSqrt(RSub(One, RMul(value, value)))>>

\* max(-1, min(1, x))
clamp(x) == RMax(I(-1), RMin(One, x))

\* compute_angle_with: the angle in [0, pi] as <<cos, sin>>; 0.0 when a norm is 0
cos_between(v, w, norms) ==
    IF norms = Zero THEN One ELSE clamp(RDiv(dot(v, w), norms))

compute_angle_with(v, w) == angle_of(cos_between(v, w, RMul(norm(v), norm(w))))

\* cos(0.01) and cos(0.1), the two tolerances the program passes, rounded down
CosTol(tolerance) ==
    IF tolerance = "0.01" THEN <<99995, 100000>> ELSE <<995, 1000>>

\* abs(angle) < tolerance or abs(angle - pi) < tolerance
within_tolerance(angle, cos_tolerance) ==
    RLt(cos_tolerance, angle[1]) \/ RLt(angle[1], RNeg(cos_tolerance))

is_parallel_to(v, w, tolerance) ==
    within_tolerance(compute_angle_with(v, w), CosTol(tolerance))

\* project_in_plane: self - n * self.dot(n) with n = normal / normal.norm();
\* n * (self . n) = normal * (self . normal) / |normal|^2
project_in_plane(v, normal) ==
    sub(v, mul(normal, RDiv(dot(v, normal), norm_sq(normal))))

\* project_along: o * self.dot(o) with o = other / other.norm()
project_along(v, other) ==
    mul(other, RDiv(dot(v, other), norm_sq(other)))

normalized(v) == truediv(v, norm(v))

-----------------------------------------------------------------------------
(* Optional values and exceptions *)

\* Python's None.  Vectors, points and numbers are tuples, and so is None;
\* a record that may be None is kept in a one-element tuple.
None == <<>>
Some(x) == <<x>>

NoError == ""

-----------------------------------------------------------------------------
(* Bounds of the model *)

\* the host passes 1 .. MaxFaces faces
MaxFaces == 3
\* a cutting plane built by the moment phase cuts the prism of its face at a
\* depth 0 .. MaxDepth (0: the second split yields no fragment)
MaxDepth == 1
\* the equilibrium solve of the axial phase yields stress increments 1 .. MaxSigma
MaxSigma == 1
\* a caller of a single face makes at most MaxCalls calls
MaxCalls == 4

-----------------------------------------------------------------------------
(* The inputs of the host: Rhino faces, loads and fastener axis *)

\* A rectangular Rhino face, as the program reads it back from the kernel:
\*   normal_at  Faces[0].NormalAt(0.5, 0.5)       (code.py 29-31); JointFace
\*              does not rely on its length
\*   edges      PointAtEnd - PointAtStart of brep_surface.Edges, in order
\*   area       AreaMassProperties.Compute(...).Area
\*   centroid   AreaMassProperties.Compute(...).Centroid
\*   hit        the first point where the line through the stress solid's
\*              centroid, along the normal, meets the face
BrepFace(n, e1, e2, a, c, h) ==
    [normal_at |-> n, edges |-> <<e1, e2, neg(e1), neg(e2)>>, area |-> a,
     centroid |-> c, hit |-> h]

BrepFaces ==
    << \* 1: top face, long edge first
       BrepFace(Vec(0, 0, 2), Vec(4, 0, 0), Vec(0, 2, 0), 8, Vec(0, 0, 1), Vec(1, 0, 1)),
       \* 2: bottom face opposing face 1, short edge first
       BrepFace(Vec(0, 0, -1), Vec(0, 2, 0), Vec(-4, 0, 0), 8, Vec(0, 0, -1), Vec(-1, 0, -1)),
       \* 3: inclined face looking down the x axis
       BrepFace(Vec(-3, 0, -4), Vec(0, 2, 0), Vec(4, 0, -3), 10, Vec(-3, 0, -4), Vec(-3, 1, -4)),
       \* 4: inclined face looking up the y axis
       BrepFace(Vec(0, 4, 3), Vec(4, 0, 0), Vec(0, 3, -4), 20, Vec(0, 4, 3), Vec(1, 4, 3)),
       \* 5: a top face drawn the other way round
       BrepFace(Vec(0, 0, 1), Vec(-4, 0, 0), Vec(0, -2, 0), 8, Vec(0, 0, 1), Vec(-1, 0, 1)),
       \* 6: upright side face, vertical edge first
       BrepFace(Vec(3, 4, 0), Vec(0, 0, 2), Vec(4, -3, 0), 10, Vec(3, 4, 0), Vec(3, 4, 1)),
       \* 7: upright side face looking up the y axis, horizontal edge first
       BrepFace(Vec(0, 1, 0), Vec(4, 0, 0), Vec(0, 0, 2), 8, Vec(0, 1, 1), Vec(1, 1, 1)) >>

Moments == {Vec(0, 4, 0), Vec(0, 0, 3)}
RotationPoints ==
    {Vec(1, 1, 0), Vec(0, 0, 0), Vec(0, 0, 1), Vec(4, 0, 0), Vec(8, 0, 0)}
AxialForces == {Vec(0, 0, 0), Vec(5, 0, 0), Vec(3, 4, 0), Vec(5100, 101, 0), Vec(101, 5100, 0)}
ScrewAxes == {Vec(0, 0, 2), Vec(25, 36, 48)}

-----------------------------------------------------------------------------
(* face.JointFace *)

\* JointFace.__detect_main_axis: the first edge for which a later edge is
\* parallel (both flipped to z <= 0); None when there is none
flip_z(v) == IF RLt(Zero, v[3]) THEN neg(v) ELSE v

\* the candidates of the loop: the edge vectors, normalized and flipped
main_axis_candidates(edges) ==
    [k \in 1..Len(edges) |-> flip_z(truediv(edges[k], norm(edges[k])))]

\* the indices i for which a later j is parallel
parallel_pairs(cands) ==
    {k \in 1..Len(cands) :
        \E j \in (k + 1)..Len(cands) : is_parallel_to(cands[k], cands[j], "0.01")}

first_parallel(cands, hits) ==
    IF hits = {} THEN None
    ELSE truediv(cands[CHOOSE k \in hits : \A m \in hits : k <= m],
                 norm(cands[CHOOSE k \in hits : \A m \in hits : k <= m]))

main_axis_among(cands) == first_parallel(cands, parallel_pairs(cands))

detect_main_axis(edges) == main_axis_among(main_axis_candidates(edges))

\* a __post_init__ that keeps the normal as it was passed
raw_normal(normal) == normal

\* __post_init__: self.normal = self.normal / self.normal.norm()
unit_normal(normal) == truediv(normal, norm(normal))

\* JointFace(id, parent_joint_id, area, normal, brep_surface) and __post_init__;
\* brep is the index of the Rhino face in BrepFaces
JointFace(id, normal, brep) ==
    [id |-> id,
     brep |-> brep,
     normal |-> unit_normal(normal),
     area |-> BrepFaces[brep].area,
     main_axis |-> detect_main_axis(BrepFaces[brep].edges),
     resultant_location |-> None,
     stress_distribution |-> None,
     max_stress |-> Zero,
     stress_face_plane |-> None,
     is_stressed |-> FALSE]

-----------------------------------------------------------------------------
(* joint.Joint *)

\* joint.py: a vector is dropped when its dot product with one kept is > 0.9
is_duplicate(vec, unique_vectors) ==
    \E k \in 1..Len(unique_vectors) :
        RLt(<<9, 10>>, dot(vec, truediv(unique_vectors[k], norm(unique_vectors[k]))))

add_unique(vec, unique_vectors) ==
    IF is_duplicate(vec, unique_vectors) THEN unique_vectors
    ELSE Append(unique_vectors, vec)

RECURSIVE remove_duplicate_vectors_from(_, _)
remove_duplicate_vectors_from(vectors, unique_vectors) ==
    IF vectors = <<>> THEN unique_vectors
    ELSE remove_duplicate_vectors_from(Tail(vectors),
             add_unique(truediv(Head(vectors), norm(Head(vectors))), unique_vectors))

remove_duplicate_vectors(vectors) == remove_duplicate_vectors_from(vectors, <<>>)

\* Joint.__get_main_axes
get_main_axes(fs) == remove_duplicate_vectors([k \in 1..Len(fs) |-> fs[k].main_axis])

-----------------------------------------------------------------------------
(* JointFace: the stress cutting plane and the stress distribution *)

\* A geometry.Plane kept by a face.  origin is the plane's origin relative to
\* where the plane was built; depth is the one thing the kernel's splits
\* depend on: how deep the plane as built cuts below the face at the far edge.
Plane(depth) == [origin |-> ZeroVector, depth |-> I(depth)]

\* Plane.translate: self.origin += translation
translate(plane, translation) == [plane EXCEPT !.origin = add(@, translation)]

set_stress_face_plane(f, plane) == [f EXCEPT !.stress_face_plane = Some(plane)]

translate_stress_face_plane(f, translation) ==
    IF f.stress_face_plane # None
    THEN [f EXCEPT !.stress_face_plane = Some(translate(@[1], translation))]
    ELSE f

\* The depth at which a plane cuts the prism of a face: moving the plane by t
\* along -normal deepens the cut by t.
depth_under(plane, normal) == RSub(plane.depth, dot(plane.origin, normal))

cut_depth(f) == depth_under(f.stress_face_plane[1], f.normal)

\* The solid the two splits leave (face.py 97-135, 145-147): none when the
\* second split yields no fragment, else the smaller fragment; its volume and
\* its longest edge along the normal are what the program reads from it.
solid_of(area, depth) ==
    IF RLe(depth, Zero) THEN None
    ELSE Some([volume |-> RMul(I(area), depth), max_edge |-> depth])

split_solid(f) == solid_of(f.area, cut_depth(f))

\* a create_stress_distribution that forgets the cutting plane it has used
store_and_drop_plane(f, candidates_stress_distribution) ==
    [f EXCEPT !.is_stressed = candidates_stress_distribution # None,
              !.stress_distribution = candidates_stress_distribution,
              !.resultant_location = IF candidates_stress_distribution = None THEN None
                                     ELSE BrepFaces[f.brep].hit,
              !.stress_face_plane = None]

\* a store that leaves is_stressed as it was
store_without_flag(f, candidates_stress_distribution) ==
    IF candidates_stress_distribution = None
    THEN [f EXCEPT !.stress_distribution = None,
                   !.resultant_location = None]
    ELSE [f EXCEPT !.stress_distribution = candidates_stress_distribution,
                   !.resultant_location = BrepFaces[f.brep].hit]

\* face.py 136-165: what create_stress_distribution stores for the solid found
store_stress_distribution(f, candidates_stress_distribution) ==
    IF candidates_stress_distribution = None
    THEN [f EXCEPT !.is_stressed = FALSE,
                   !.stress_distribution = None,
                   !.resultant_location = None]
    ELSE [f EXCEPT !.is_stressed = TRUE,
                   !.stress_distribution = candidates_stress_distribution,
                   !.resultant_location = BrepFaces[f.brep].hit]

\* create_stress_distribution: [face, err]
create_stress_distribution(f) ==
    IF f.stress_face_plane = None
    THEN [face |-> f, err |-> "ValueError"]
    ELSE [face |-> store_stress_distribution(f, split_solid(f)), err |-> NoError]

\* the longest wireframe edge of the stress distribution parallel to the normal
\* (face.py 66-74, stress_field.py 209-217)
max_normal_edge(f) == f.stress_distribution[1].max_edge

\* a rescaling that reads nothing of the face and never fails
skip_rescale(f, additional_stress) == [face |-> f, err |-> NoError]

\* face.py 66-79, once max_stress has been increased
rescale_stress_distribution(f, additional_stress) ==
    IF f.stress_distribution = None
    THEN [face |-> f, err |-> "AttributeError"]
    ELSE IF f.max_stress = Zero
    THEN [face |-> f, err |-> "ZeroDivisionError"]
    ELSE create_stress_distribution(
             translate_stress_face_plane(f,
                 mul(normalized(f.normal),
                     RMul(I(-1), RMul(additional_stress,
                                      RDiv(max_normal_edge(f), f.max_stress))))))

\* a max_stress that forgets what it held
overwrite(max_stress, additional_stress) == additional_stress

\* face.py 65
accumulate(max_stress, additional_stress) == RAdd(max_stress, additional_stress)

\* increase_stress_distribution: [face, err]
increase_stress_distribution(f, additional_stress) ==
    rescale_stress_distribution(
        [f EXCEPT !.max_stress = accumulate(@, additional_stress)], additional_stress)

-----------------------------------------------------------------------------
(* StressFieldComputer: the moment phase *)

\* The kernel's answers for a rectangular face cut by the plane through
\* rotation_point spanned by the face normal and the moment
\* (stress_field.py 100-133).  The plane's normal is normal x moment; it lies
\* in the face, along one of the two edge directions.  The cut crosses the
\* face at centroid + at * half, half being half the edge the plane's normal
\* runs along.
\*   crv                  the cut meets the face:             -1 < at < 1
\*   intersection_curves  the cut meets the face scaled by 3: -3 < at < 3
\*   split_faces          the centroids of the fragments of the face
half_edge(b, k) == truediv(b.edges[k], I(2))

\* the edge direction the plane's normal q runs along
cut_edge(b, q) ==
    CHOOSE m \in {1, 2} : dot(half_edge(b, m), q) # Zero /\ dot(half_edge(b, 3 - m), q) = Zero

cut_position(b, q, half, rotation_point) ==
    RDiv(dot(sub(rotation_point, b.centroid), q), dot(half, q))

cut_at(b, half, at, crv) ==
    [crv |-> crv,
     intersection_curves |-> RLt(I(-3), at) /\ RLt(at, I(3)),
     split_faces |->
         IF crv
         THEN <<add(b.centroid, mul(half, RDiv(RSub(at, One), I(2)))),
                add(b.centroid, mul(half, RDiv(RAdd(at, One), I(2))))>>
         ELSE <<b.centroid>>]

cut_along(b, half, at) == cut_at(b, half, at, RLt(I(-1), at) /\ RLt(at, One))

cut_by(b, q, half, rotation_point) ==
    cut_along(b, half, cut_position(b, q, half, rotation_point))

cut_with_normal(b, q, rotation_point) ==
    IF q = ZeroVector
    THEN [crv |-> FALSE, intersection_curves |-> FALSE, split_faces |-> <<b.centroid>>]
    ELSE cut_by(b, q, half_edge(b, cut_edge(b, q)), rotation_point)

moment_cut(f, moment, rotation_point) ==
    cut_with_normal(BrepFaces[f.brep], cross(f.normal, moment), rotation_point)

\* stress_field.py 139-147: the triple product that tells the side of a fragment
fragment_side(f, face_center, initial_face_center, rotation_point) ==
    dot(cross(sub(face_center, initial_face_center),
              sub(initial_face_center, rotation_point)),
        f.normal)

\* the first candidate with a negative triple product; 0 stands for None
first_below(below) ==
    IF below = {} THEN 0 ELSE CHOOSE k \in below : \A m \in below : k <= m

\* stress_field.py 134-153: the fragment on the compression side; 0 stands
\* for split_face = None
select_split_face(f, split_faces, rotation_point) ==
    IF Len(split_faces) > 1
    THEN first_below({k \in 1..Len(split_faces) :
                         RLt(fragment_side(f, split_faces[k], BrepFaces[f.brep].centroid,
                                           rotation_point),
                             Zero)})
    ELSE 1

\* stress_field.py 205-219: the unit stress read from the solid created
unit_stress_of(r) ==
    IF r.err # NoError
    THEN [face |-> r.face, err |-> r.err, max_unit_stress |-> Zero]
    ELSE IF r.face.stress_distribution = None
    THEN [face |-> r.face, err |-> "AttributeError", max_unit_stress |-> Zero]
    ELSE [face |-> r.face, err |-> NoError, max_unit_stress |-> max_normal_edge(r.face)]

\* stress_field.py 155-203: depth is the depth of the rotated plane the kernel builds
stress_under_plane(f, intersection_curves, split_face, depth) ==
    IF split_face = 0
    THEN [face |-> f, err |-> "AttributeError", max_unit_stress |-> Zero]
    ELSE IF ~intersection_curves
    THEN [face |-> f, err |-> "IndexError", max_unit_stress |-> Zero]
    ELSE unit_stress_of(create_stress_distribution(set_stress_face_plane(f, Plane(depth))))

stress_after_cut(f, cut, rotation_point, depth) ==
    stress_under_plane(f, cut.intersection_curves,
                       select_split_face(f, cut.split_faces, rotation_point), depth)

\* __compute_moment_unit_stresses: [face, err, max_unit_stress]
compute_moment_unit_stresses(f, moment, rotation_point, depth) ==
    stress_after_cut(f, moment_cut(f, moment, rotation_point), rotation_point, depth)

\* volume_lambda
volume_lambda(brep) == RAbs(brep[1].volume)

-----------------------------------------------------------------------------
(* StressFieldComputer: the axial phase *)

\* the ratio above which a component is neglected (stress_field.py 244, 249)
NeglectRatio == 50

\* x < 1e-12 for a rational of the model: numerators and denominators are
\* below 2^31, so a positive one is above 1e-12
BelowSquaredTolerance(x) == RLe(x, Zero)

\* a test that rejects only a joint with fewer than two main axes
fewer_than_two_axes(axes) == Len(axes) < 2

\* stress_field.py 228: len(main_axes) != 2
wrong_axes_count(axes) == Len(axes) # 2

\* sin(a - b) of two angles given as <<cos, sin>>
sin_difference(a, b) == RSub(RMul(a[2], b[1]), RMul(a[1], b[2]))

\* stress_field.py 244-253: a component more than NeglectRatio times smaller
\* than the other is popped
neglect_small_component(p1, p2, n1, n2) ==
    IF n2 = Zero
    THEN [err |-> "ZeroDivisionError", projected_forces |-> <<>>]
    ELSE IF RLt(I(NeglectRatio), RDiv(n1, n2))
    THEN [err |-> NoError, projected_forces |-> <<p1>>]
    ELSE IF n1 = Zero
    THEN [err |-> "ZeroDivisionError", projected_forces |-> <<>>]
    ELSE IF RLt(I(NeglectRatio), RDiv(n2, n1))
    THEN [err |-> NoError, projected_forces |-> <<p2>>]
    ELSE [err |-> NoError, projected_forces |-> <<p1, p2>>]

\* stress_field.py 241-243: the components must add up to the axial force
assert_decomposition(axial_force, p1, p2) ==
    IF ~BelowSquaredTolerance(norm_sq(sub(add(p1, p2), axial_force)))
    THEN [err |-> "AssertionError", projected_forces |-> <<>>]
    ELSE neglect_small_component(p1, p2, norm(p1), norm(p2))

\* a second component that is the whole force
whole_force(axial_force, projected_force_on_axe_1) == axial_force

\* stress_field.py 240: projected_force_on_axe_2 = axial_force - projected_force_on_axe_1
second_component(axial_force, projected_force_on_axe_1) ==
    sub(axial_force, projected_force_on_axe_1)

complete_decomposition(axial_force, projected_force_on_axe_1) ==
    assert_decomposition(axial_force, projected_force_on_axe_1,
                         second_component(axial_force, projected_force_on_axe_1))

\* stress_field.py 235-239: the sine rule; sin(pi - main_axes_angle) is
\* sin(main_axes_angle)
first_component(main_axes, axial_force, main_axes_angle, force_axis_angle) ==
    mul(truediv(main_axes[1], norm(main_axes[1])),
        RMul(RDiv(norm(axial_force), main_axes_angle[2]),
             sin_difference(main_axes_angle, force_axis_angle)))

decompose_by_angles(main_axes, axial_force, main_axes_angle, force_axis_angle) ==
    IF main_axes_angle[2] = Zero
    THEN [err |-> "ZeroDivisionError", projected_forces |-> <<>>]
    ELSE complete_decomposition(axial_force,
             first_component(main_axes, axial_force, main_axes_angle, force_axis_angle))

\* stress_field.py 231-253: [err, projected_forces]
decompose_axial_force(main_axes, axial_force) ==
    decompose_by_angles(main_axes, axial_force,
                        compute_angle_with(main_axes[1], main_axes[2]),
                        compute_angle_with(main_axes[1], axial_force))

\* stress_field.py 256-258, 333-335: face.normal = -1 * face.normal on every face
negate_normals(fs) == [k \in 1..Len(fs) |-> [fs[k] EXCEPT !.normal = mul(@, I(-1))]]

\* The two searches keep 0-based face ids, as the program does: face id j is fs[j + 1].
RECURSIVE facing_search(_, _, _, _, _)
facing_step(fs, force, j, facing_face_id, current_best_dot, d) ==
    IF RLt(d, current_best_dot)
    THEN facing_search(fs, force, j + 1, j, d)
    ELSE facing_search(fs, force, j + 1, facing_face_id, current_best_dot)

facing_search(fs, force, j, facing_face_id, current_best_dot) ==
    IF j >= Len(fs) THEN facing_face_id
    ELSE facing_step(fs, force, j, facing_face_id, current_best_dot,
                     dot(fs[j + 1].normal, truediv(force, norm(force))))

\* stress_field.py 259-268
find_facing_face(fs, force) == facing_search(fs, force, 1, 0, Zero)

RECURSIVE helping_search(_, _, _, _, _)
helping_step(fs, facing_face_id, j, helping_face_id, current_best_dot, d) ==
    IF RLt(current_best_dot, d)
    THEN helping_search(fs, facing_face_id, j + 1, j, d)
    ELSE helping_search(fs, facing_face_id, j + 1, helping_face_id, current_best_dot)

helping_search(fs, facing_face_id, j, helping_face_id, current_best_dot) ==
    IF j >= Len(fs) THEN helping_face_id
    ELSE IF j = facing_face_id
    THEN helping_search(fs, facing_face_id, j + 1, helping_face_id, current_best_dot)
    ELSE helping_step(fs, facing_face_id, j, helping_face_id, current_best_dot,
                      dot(fs[facing_face_id + 1].normal, fs[j + 1].normal))

\* stress_field.py 271-281
find_helping_face(fs, facing_face_id) == helping_search(fs, facing_face_id, 1, 0, Zero)

\* stress_field.py 283-330: the divisions before the normals are restored.
\* The angle between two projected vectors, folded to [0, pi/2], is 0 exactly
\* when one of them is zero or they lie on one line.
equilibrium_error(fs, force, facing_face_id, helping_face_id, screw) ==
    LET projected_screw_axis == project_in_plane(screw, force)
        projected_facing_normal == project_in_plane(fs[facing_face_id + 1].normal, force)
        projected_helping_normal == project_in_plane(fs[helping_face_id + 1].normal, force)
    IN  IF cross(projected_screw_axis, projected_facing_normal) = ZeroVector
        THEN "ZeroDivisionError"   \* / sin(screw_facing_face_angle)
        ELSE IF projected_helping_normal = ZeroVector
        THEN "ZeroDivisionError"   \* -1 / helping_normal_projection_factor
        ELSE NoError

\* stress_field.py 338-345: whether resisting_unit_resultant.norm() can be 0.
\* The three unit resultants are multiples of the facing normal, the helping
\* normal and the screw axis.  When the helping face is the facing face their
\* two resultants cancel and the screw's has the factor 2 cos(angle); when all
\* three directions are perpendicular to the force the sum is 0.  Otherwise
\* the value needs the sines of the projected angles, which are not rational:
\* both outcomes are kept.
resisting_norm_zero(fs, force, facing_face_id, helping_face_id, screw) ==
    LET nf == fs[facing_face_id + 1].normal
        nh == fs[helping_face_id + 1].normal
    IN  IF facing_face_id = helping_face_id
        THEN {dot(project_in_plane(screw, force), project_in_plane(nf, force)) = Zero
              \/ dot(screw, force) = Zero}
        ELSE IF dot(nf, force) = Zero /\ dot(nh, force) = Zero /\ dot(screw, force) = Zero
        THEN {TRUE}
        ELSE BOOLEAN

\* stress_field.py 317-324, 346-351: sigma_facing is 0 when the projected
\* helping normal lies along the projected screw axis (sin of their angle is
\* 0); other values are left to the bound
sigma_facing_values(fs, force, helping_face_id, screw) ==
    IF cross(project_in_plane(screw, force),
             project_in_plane(fs[helping_face_id + 1].normal, force)) = ZeroVector
    THEN {Zero}
    ELSE {I(v) : v \in 1..MaxSigma}

sigma_helping_values == {I(v) : v \in 1..MaxSigma}

-----------------------------------------------------------------------------
(* The state: one run of RWJCStressComputer.RunScript *)

VARIABLES
    pc,                      \* the statement about to run
    err,                     \* the exception that left RunScript, or NoError
    brep_faces,              \* input: the Rhino faces, as indices into BrepFaces
    moment_vector,           \* input
    rotation_center,         \* input
    axial_force,             \* input
    screw_axis_in,           \* input
    vectors,                 \* RunScript: the scaled normals
    faces,                   \* joint.faces
    moment_weights,          \* joint.moment_weights
    main_axes,               \* joint.main_axes
    screw_axis,              \* StressFieldComputer.screw_axis
    total_tensile_component, \* StressFieldComputer.total_tensile_component
    i,                       \* the loop index of the running loop
    stress_volumes,          \* compute_stress_field locals
    unit_stresses,
    amplification_factor,
    projected_forces,        \* __compute_axial_stresses locals
    facing_face_id,
    helping_face_id,
    sigmas,                  \* <<sigma_facing, sigma_helping>>
    selections,              \* history: the face pairs selected, one per component
    calls,                   \* history: the increase_stress_distribution calls
    outputs                  \* what RunScript returns

inputs == <<brep_faces, moment_vector, rotation_center, axial_force, screw_axis_in>>
joint_vars == <<faces, moment_weights, main_axes>>
moment_locals == <<stress_volumes, unit_stresses, amplification_factor>>
axial_locals == <<projected_forces, facing_face_id, helping_face_id, sigmas>>
history == <<selections, calls>>

vars == <<pc, err, inputs, vectors, joint_vars, screw_axis, total_tensile_component, i,
          moment_locals, axial_locals, history, outputs>>

\* An input is drawn when the program first uses it; until then it is None.
Init ==
    /\ pc = "JointFace"
    /\ err = NoError
    /\ brep_faces = <<>>
    /\ moment_vector = None
    /\ rotation_center = None
    /\ axial_force = None
    /\ screw_axis_in = None
    /\ vectors = <<>>
    /\ faces = <<>>
    /\ moment_weights = None
    /\ main_axes = None
    /\ screw_axis = None
    /\ total_tensile_component = Zero
    /\ i = 0
    /\ stress_volumes = <<>>
    /\ unit_stresses = <<>>
    /\ amplification_factor = None
    /\ projected_forces = <<>>
    /\ facing_face_id = 0
    /\ helping_face_id = 0
    /\ sigmas = <<>>
    /\ selections = <<>>
    /\ calls = <<>>
    /\ outputs = None

\* an exception propagates out of RunScript
Raise(e) == pc' = "raised" /\ err' = e

\* code.py 23-42: one JointFace per Rhino face, and its display vector
NewJointFace ==
    /\ pc = "JointFace"
    /\ Len(faces) < MaxFaces
    /\ \E brep \in 1..Len(BrepFaces) :
          LET normal == BrepFaces[brep].normal_at
          IN  /\ brep_faces' = Append(brep_faces, brep)
              /\ IF norm_sq(normal) = Zero
                    \/ \E k \in 1..4 : norm_sq(BrepFaces[brep].edges[k]) = Zero
                 THEN /\ Raise("ZeroDivisionError")
                      /\ UNCHANGED <<faces, vectors, i>>
                 ELSE \E joint_face \in {JointFace(i, normal, brep)} :
                          /\ faces' = Append(faces, joint_face)
                          /\ vectors' = Append(vectors, truediv(joint_face.normal, I(10)))
                          /\ i' = i + 1
                          /\ UNCHANGED <<pc, err>>
    /\ UNCHANGED <<moment_vector, rotation_center, axial_force, screw_axis_in,
                   moment_weights, main_axes, screw_axis, total_tensile_component,
                   moment_locals, axial_locals, history, outputs>>

\* code.py 44, once the loop over the Rhino faces has ended; Joint.__post_init__
NewJoint ==
    /\ pc = "JointFace"
    /\ Len(faces) >= 1
    /\ IF \E k \in 1..Len(faces) : faces[k].main_axis = None
       THEN Raise("AttributeError") /\ UNCHANGED main_axes
       ELSE main_axes' = get_main_axes(faces) /\ pc' = "StressFieldComputer" /\ err' = err
    /\ UNCHANGED <<inputs, vectors, faces, moment_weights, screw_axis,
                   total_tensile_component, i, moment_locals, axial_locals, history,
                   outputs>>

\* code.py 46-68; StressFieldComputer.__init__
NewStressFieldComputer ==
    /\ pc = "StressFieldComputer"
    /\ moment_vector' \in Moments
    /\ rotation_center' \in RotationPoints
    /\ \E screw \in ScrewAxes :
          /\ screw_axis_in' = screw
          /\ IF norm_sq(screw) = Zero
             THEN Raise("ZeroDivisionError") /\ UNCHANGED <<screw_axis, i>>
             ELSE /\ screw_axis' = truediv(screw, norm(screw))
                  /\ i' = 0
                  /\ pc' = "moment_face"
                  /\ err' = err
    /\ total_tensile_component' = Zero
    /\ UNCHANGED <<brep_faces, axial_force, vectors, joint_vars, moment_locals,
                   axial_locals, history, outputs>>

\* stress_field.py 48-52: one face of the first loop of compute_stress_field
MomentFace ==
    /\ pc = "moment_face"
    /\ \E depth \in 0..MaxDepth :
          \E r \in {compute_moment_unit_stresses(faces[i + 1], moment_vector,
                                                  rotation_center, depth)} :
              /\ faces' = [faces EXCEPT ![i + 1] = r.face]
              /\ IF r.err # NoError
                 THEN Raise(r.err) /\ UNCHANGED <<stress_volumes, unit_stresses, i>>
                 ELSE /\ stress_volumes' =
                             Append(stress_volumes, volume_lambda(r.face.stress_distribution))
                      /\ unit_stresses' = Append(unit_stresses, r.max_unit_stress)
                      /\ i' = i + 1
                      /\ pc' = IF i + 1 = Len(faces) THEN "moment_weights" ELSE "moment_face"
                      /\ err' = err
    /\ UNCHANGED <<inputs, vectors, moment_weights, main_axes, screw_axis,
                   total_tensile_component, amplification_factor, axial_locals, history,
                   outputs>>

\* a total that leaves out the first face
total_volume_without_first(volumes) == RSum(Tail(volumes))

\* stress_field.py 53-54
total_volume_of(volumes) == RSum(volumes)

SetMomentWeights ==
    /\ pc = "moment_weights"
    /\ \E total_volume \in {total_volume_of(stress_volumes)} :
           IF total_volume = Zero
           THEN Raise("ZeroDivisionError") /\ UNCHANGED moment_weights
           ELSE /\ moment_weights' = [k \in 1..Len(stress_volumes) |->
                                         RDiv(stress_volumes[k], total_volume)]
                /\ pc' = "unit_moment"
                /\ err' = err
    /\ UNCHANGED <<inputs, vectors, faces, main_axes, screw_axis, total_tensile_component,
                   i, moment_locals, axial_locals, history, outputs>>

\* stress_field.py 56-69: the sum of the faces' unit moments, each turned to
\* the side of the applied moment
turned_to(cross_product, moment) ==
    IF RLt(dot(cross_product, moment), Zero) THEN mul(cross_product, I(-1))
    ELSE cross_product

unit_moment_of(joint_face, moment, rotation_point) ==
    turned_to(cross(sub(joint_face.resultant_location, rotation_point),
                    mul(joint_face.normal, volume_lambda(joint_face.stress_distribution))),
              moment)

RECURSIVE raw_unit_moment_from(_, _, _, _)
raw_unit_moment_from(fs, k, moment, rotation_point) ==
    IF k > Len(fs) THEN ZeroVector
    ELSE add(unit_moment_of(fs[k], moment, rotation_point),
             raw_unit_moment_from(fs, k + 1, moment, rotation_point))

\* stress_field.py 75-84: cos(force_angle), force_angle folded to [0, pi/2]
cos_force_angle(moment, normal) == RAbs(compute_angle_with(moment, normal)[1])

\* stress_field.py 71
unit_resisting_moment ==
    dot(raw_unit_moment_from(faces, 1, moment_vector, rotation_center),
        truediv(moment_vector, norm(moment_vector)))

\* a division that never fails
never_zero(divisor) == FALSE

\* stress_field.py 72: the float division raises for a divisor of 0.0
is_zero_divisor(divisor) == divisor = Zero

\* stress_field.py 56-72
ComputeAmplificationFactor ==
    /\ pc = "unit_moment"
    /\ IF norm_sq(moment_vector) = Zero
       THEN Raise("ZeroDivisionError") /\ UNCHANGED amplification_factor
       ELSE \E resisting \in {unit_resisting_moment} :
                    IF is_zero_divisor(resisting)
                    THEN Raise("ZeroDivisionError") /\ UNCHANGED amplification_factor
                    ELSE /\ amplification_factor' =
                                RDiv(norm(moment_vector), resisting)
                         /\ pc' = "max_stress"
                         /\ err' = err
    /\ UNCHANGED <<inputs, vectors, joint_vars, screw_axis, total_tensile_component, i,
                   stress_volumes, unit_stresses, axial_locals, history, outputs>>

RECURSIVE tensile_sum(_, _, _, _)
tensile_sum(fs, k, moment, factor) ==
    IF k > Len(fs) THEN Zero
    ELSE RAdd(RMul(RMul(volume_lambda(fs[k].stress_distribution),
                        cos_force_angle(moment, fs[k].normal)),
                   factor),
              tensile_sum(fs, k + 1, moment, factor))

\* a moment phase that leaves max_stress at zero
no_max_stress(factor, unit_stress) == Zero

\* stress_field.py 74
moment_max_stress(factor, unit_stress) == RMul(factor, unit_stress)

\* stress_field.py 73-85
SetMaxStresses ==
    /\ pc = "max_stress"
    /\ faces' = [k \in 1..Len(faces) |->
                    [faces[k] EXCEPT !.max_stress =
                         moment_max_stress(amplification_factor, unit_stresses[k])]]
    /\ total_tensile_component' =
           RDiv(RAdd(total_tensile_component,
                     tensile_sum(faces, 1, moment_vector, amplification_factor)),
                I(2))
    /\ pc' = "axial"
    /\ UNCHANGED <<err, inputs, vectors, moment_weights, main_axes, screw_axis, i,
                   moment_locals, axial_locals, history, outputs>>

\* stress_field.py 228-253
StartAxialStresses ==
    /\ pc = "axial"
    /\ \E force \in AxialForces :
          /\ axial_force' = force
          /\ IF wrong_axes_count(main_axes)
             THEN Raise("ValueError") /\ UNCHANGED <<projected_forces, i>>
             ELSE \E r \in {decompose_axial_force(main_axes, force)} :
                      IF r.err # NoError
                      THEN Raise(r.err) /\ UNCHANGED <<projected_forces, i>>
                      ELSE /\ projected_forces' = r.projected_forces
                           /\ i' = 0
                           /\ pc' = "select"
                           /\ err' = err
    /\ UNCHANGED <<brep_faces, moment_vector, rotation_center, screw_axis_in, vectors,
                   joint_vars, screw_axis, total_tensile_component, moment_locals,
                   facing_face_id, helping_face_id, sigmas, history, outputs>>

\* stress_field.py 254-281: component i: the normals are negated for i = 1,
\* then the facing and the helping face are searched
SelectFaces ==
    /\ pc = "select"
    /\ \E fs \in {IF i = 1 THEN negate_normals(faces) ELSE faces} :
       \E facing \in {find_facing_face(fs, projected_forces[i + 1])} :
       \E helping \in {find_helping_face(fs, facing)} :
           /\ faces' = fs
           /\ facing_face_id' = facing
           /\ helping_face_id' = helping
           /\ selections' = Append(selections,
                                   [component |-> i, force |-> projected_forces[i + 1],
                                    facing |-> facing, helping |-> helping,
                                    normals |-> [k \in 1..Len(fs) |-> fs[k].normal]])
    /\ pc' = "equilibrium"
    /\ UNCHANGED <<err, inputs, vectors, moment_weights, main_axes, screw_axis,
                   total_tensile_component, i, moment_locals, projected_forces, sigmas,
                   calls, outputs>>

\* normals that stay as the selection left them
leave_normals(fs, component) == fs

\* stress_field.py 333-335: the negation of component 1 is reversed
restore_normals(fs, component) == IF component = 1 THEN negate_normals(fs) ELSE fs

\* stress_field.py 283-354: the equilibrium in the plane perpendicular to the
\* force; the normals are restored (333-335) before the scaling
SolveEquilibrium ==
    /\ pc = "equilibrium"
    /\ \E force \in {projected_forces[i + 1]} :
       \E e \in {equilibrium_error(faces, force, facing_face_id, helping_face_id,
                                   screw_axis)} :
           IF e # NoError
           THEN Raise(e) /\ UNCHANGED <<faces, sigmas>>
           ELSE /\ faces' = restore_normals(faces, i)
                /\ \E zero \in resisting_norm_zero(faces, force, facing_face_id,
                                                   helping_face_id, screw_axis) :
                      IF zero
                      THEN Raise("ZeroDivisionError") /\ UNCHANGED sigmas
                      ELSE /\ \E sf \in sigma_facing_values(faces, force, helping_face_id,
                                                            screw_axis),
                                 sh \in sigma_helping_values :
                                 sigmas' = <<sf, sh>>
                           /\ pc' = "increase_facing"
                           /\ err' = err
    /\ UNCHANGED <<inputs, vectors, moment_weights, main_axes, screw_axis,
                   total_tensile_component, i, moment_locals, projected_forces,
                   facing_face_id, helping_face_id, history, outputs>>

\* stress_field.py 355
IncreaseFacing ==
    /\ pc = "increase_facing"
    /\ \E r \in {increase_stress_distribution(faces[facing_face_id + 1], sigmas[1])} :
           /\ faces' = [faces EXCEPT ![facing_face_id + 1] = r.face]
           /\ IF r.err # NoError THEN Raise(r.err)
              ELSE pc' = "increase_helping" /\ err' = err
    /\ calls' = Append(calls, [component |-> i, face |-> facing_face_id,
                               additional_stress |-> sigmas[1]])
    /\ UNCHANGED <<inputs, vectors, moment_weights, main_axes, screw_axis,
                   total_tensile_component, i, moment_locals, axial_locals, selections,
                   outputs>>

\* stress_field.py 356-359, and the loop's next round
IncreaseHelping ==
    /\ pc = "increase_helping"
    /\ \E r \in {increase_stress_distribution(faces[helping_face_id + 1], sigmas[2])} :
           /\ faces' = [faces EXCEPT ![helping_face_id + 1] = r.face]
           /\ IF r.err # NoError THEN Raise(r.err) /\ i' = i
              ELSE /\ i' = i + 1
                   /\ pc' = IF i + 1 < Len(projected_forces) THEN "select" ELSE "outputs"
                   /\ err' = err
    /\ calls' = Append(calls, [component |-> i, face |-> helping_face_id,
                               additional_stress |-> sigmas[2]])
    /\ UNCHANGED <<inputs, vectors, moment_weights, main_axes, screw_axis,
                   total_tensile_component, moment_locals, axial_locals, selections,
                   outputs>>

\* round(x) of Python for the rational n / d, d > 0: to the nearest integer,
\* a tie to the even one
round_half_even(n, d) ==
    IF 2 * (n % d) < d THEN n \div d
    ELSE IF 2 * (n % d) > d THEN n \div d + 1
    ELSE IF (n \div d) % 2 = 0 THEN n \div d ELSE n \div d + 1

\* code.py 88-91: the number shown in "sigma_max = ... MPa",
\* round(max_stress / 1e6, 2), in hundredths of a MPa
sigma_max_label(max_stress) == round_half_even(max_stress[1], max_stress[2] * 10000)

\* an anchor that is always empty
no_anchor(joint_face) == None

\* code.py 75-84
anchor_of(joint_face) ==
    IF joint_face.is_stressed THEN joint_face.resultant_location ELSE None

\* code.py 74-93
ReturnOutputs ==
    /\ pc = "outputs"
    /\ outputs' =
           Some([vectors |-> vectors,
                 anchors |-> [k \in 1..Len(faces) |-> anchor_of(faces[k])],
                 stress_distributions |-> [k \in 1..Len(faces) |-> faces[k].stress_distribution],
                 sigma_maxs |-> [k \in 1..Len(faces) |->
                                    sigma_max_label(faces[k].max_stress)]])
    /\ pc' = "returned"
    /\ UNCHANGED <<err, inputs, vectors, joint_vars, screw_axis, total_tensile_component,
                   i, moment_locals, axial_locals, history>>

Next ==
    \/ NewJointFace
    \/ NewJoint
    \/ NewStressFieldComputer
    \/ MomentFace
    \/ SetMomentWeights
    \/ ComputeAmplificationFactor
    \/ SetMaxStresses
    \/ StartAxialStresses
    \/ SelectFaces
    \/ SolveEquilibrium
    \/ IncreaseFacing
    \/ IncreaseHelping
    \/ ReturnOutputs

Spec == Init /\ [][Next]_vars

-----------------------------------------------------------------------------
(* Properties of one run of RunScript *)

Finished == pc \in {"returned", "raised"}

\* C1: once joint.moment_weights is set it has one entry per face, in the
\* order of joint.faces; each entry is the face's stress volume divided by the
\* sum of all faces' stress volumes, the volumes being those of the faces'
\* stress solids when the weights are set; the entries sum to 1.
C1_MomentWeights ==
    moment_weights # None =>
        /\ Len(moment_weights) = Len(faces)
        /\ \A k \in 1..Len(faces) :
              moment_weights[k] = RDiv(stress_volumes[k], RSum(stress_volumes))
        /\ RSum([k \in 1..Len(faces) |-> moment_weights[k]]) = One
        /\ pc = "unit_moment" =>
              \A k \in 1..Len(faces) :
                  stress_volumes[k] = RAbs(faces[k].stress_distribution[1].volume)

\* a run that returns for three faces whose weights differ
C1_Witness ==
    /\ pc = "returned"
    /\ Len(faces) = 3
    /\ moment_weights[1] # moment_weights[2]
    /\ moment_weights[2] # moment_weights[3]

\* C2: a face whose second split yields no fragment is a valid outcome: the
\* run has not failed, and the face is not stressed and has neither a stress
\* distribution nor a resultant location.
C2_ZeroFragmentsIsValid ==
    \A k \in 1..Len(faces) :
        (faces[k].stress_face_plane # None /\ split_solid(faces[k]) = None) =>
            /\ pc # "raised"
            /\ ~faces[k].is_stressed
            /\ faces[k].stress_distribution = None
            /\ faces[k].resultant_location = None

\* the axial force lies along main_axes[0]
ForceAlongFirstAxis ==
    /\ axial_force # None
    /\ Len(main_axes) = 2
    /\ axial_force # ZeroVector
    /\ cross(axial_force, main_axes[1]) = ZeroVector

\* C3: with two main axes and the axial force along main_axes[0], the
\* component along main_axes[1] is dropped and exactly one component is
\* processed: a run that returns has selected one pair of faces and has called
\* increase_stress_distribution once on each face of the pair.
C3_ParallelForceOnePair ==
    ForceAlongFirstAxis =>
        /\ Len(projected_forces) = 1
        /\ pc = "returned" =>
              /\ Len(selections) = 1
              /\ Len(calls) = 2
              /\ calls[1].face = selections[1].facing
              /\ calls[2].face = selections[1].helping

\* two opposing faces with equal stress solids, and no axial force
SymmetricPureMoment ==
    /\ Len(faces) = 2
    /\ faces[1].normal = neg(faces[2].normal) \/ faces[2].normal = neg(faces[1].normal)
    /\ Len(stress_volumes) = 2
    /\ stress_volumes[1] = stress_volumes[2]
    /\ unit_stresses[1] = unit_stresses[2]
    /\ axial_force = ZeroVector

\* C4: for two opposing faces with equal stress volumes and unit stresses and
\* a zero axial force, compute_stress_field ends with moment_weights =
\* [1/2, 1/2] and the same max_stress on both faces.
C4_SymmetricPureMoment ==
    (SymmetricPureMoment /\ Finished) =>
        /\ pc = "returned"
        /\ moment_weights = <<Rat(1, 2), Rat(1, 2)>>
        /\ faces[1].max_stress = faces[2].max_stress

\* C5: when main_axes does not hold exactly two entries, no facing or helping
\* face is ever selected and increase_stress_distribution is never called,
\* and the axial phase, once entered, has failed with ValueError.
C5_WrongAxesCount ==
    Len(main_axes) # 2 =>
        /\ selections = <<>>
        /\ calls = <<>>
        /\ pc \notin {"select", "equilibrium", "increase_facing", "increase_helping",
                      "outputs", "returned"}
        /\ axial_force # None => pc = "raised" /\ err = "ValueError"

\* the axial phase has rejected a joint with three main axes
C5_Witness ==
    /\ pc = "raised"
    /\ err = "ValueError"
    /\ axial_force # None
    /\ Len(main_axes) = 3

\* C6: the normal of every constructed face has unit length, in every state,
\* the states in which the axial phase has negated the normals included.
C6_UnitNormal == \A k \in 1..Len(faces) : norm_sq(faces[k].normal) = One

\* the second component is being processed, the normals are negated, and a face
\* built from a normal of length 2 is among them
C6_Witness ==
    /\ pc = "equilibrium"
    /\ i = 1
    /\ \E k \in 1..Len(faces) :
          /\ BrepFaces[brep_faces[k]].normal_at = Vec(0, 0, 2)
          /\ faces[k].normal = Vec(0, 0, -1)

\* the angles from which the decomposition is computed are defined and the
\* sine rule divides by a non-zero sine
DecompositionComputed ==
    /\ axial_force # None
    /\ Len(main_axes) = 2
    /\ compute_angle_with(main_axes[1], main_axes[2])[2] # Zero

C9_FacingFaceNotZero ==
    \A s \in 1..Len(selections) :
        /\ selections[s].facing # 0
        /\ \A j \in 1..(Len(faces) - 1) :
              RLe(dot(selections[s].normals[selections[s].facing + 1],
                      normalized(selections[s].force)),
                  dot(selections[s].normals[j + 1], normalized(selections[s].force)))

\* C10: the helping face of every processed component differs from its
\* facing face, and no face receives both increase_stress_distribution calls
\* of one component.
C10_HelpingFaceDiffers ==
    /\ \A s \in 1..Len(selections) : selections[s].facing # selections[s].helping
    /\ \A a, b \in 1..Len(calls) :
          (a # b /\ calls[a].component = calls[b].component) =>
              calls[a].face # calls[b].face

\* the normal face k was constructed with
constructed_normal(k) == unit_normal(BrepFaces[brep_faces[k]].normal_at)

\* C11: whenever compute_stress_field has returned, every face's normal is
\* the normal the face had before the call, after one processed axial
\* component and after two.
C11_NormalsRestored ==
    pc \in {"outputs", "returned"} =>
        \A k \in 1..Len(faces) : faces[k].normal = constructed_normal(k)

\* a run that has returned after two components, the second of which was
\* processed with negated normals
C11_Witness ==
    /\ pc = "returned"
    /\ Len(selections) = 2
    /\ \A k \in 1..Len(faces) : selections[2].normals[k] = neg(constructed_normal(k))

\* the moment phase has built every face's stress solid and the net unit
\* resisting moment of these solids projects to zero on the applied moment
ZeroResistingMoment ==
    /\ moment_weights # None
    /\ calls = <<>>
    /\ unit_resisting_moment = Zero

\* C12: when the net unit resisting moment projects to exactly zero on the
\* applied moment, compute_stress_field fails at the division by it: the
\* run has raised ZeroDivisionError once the division has been attempted,
\* there is no amplification factor, no face has received a max_stress and
\* the axial phase has not been started.
C12_ZeroResistingMoment ==
    ZeroResistingMoment =>
        /\ pc \in {"unit_moment", "raised"}
        /\ pc = "raised" => err = "ZeroDivisionError"
        /\ amplification_factor = None
        /\ \A k \in 1..Len(faces) : faces[k].max_stress = Zero
        /\ axial_force = None
        /\ projected_forces = <<>>
        /\ selections = <<>>

\* the run has failed at the division by a zero unit resisting moment, all
\* faces carrying a stress solid
C12_Witness ==
    /\ ZeroResistingMoment
    /\ pc = "raised"
    /\ err = "ZeroDivisionError"
    /\ \A k \in 1..Len(faces) : faces[k].is_stressed

\* C14: when RunScript has returned, each of its four output lists has one
\* entry per input face, entry k being that of input face k: the display
\* vector is a tenth of the face's unit normal, the solid and the label are
\* those of joint face k, which was built from input face k; and the
\* resultant location of a face is empty exactly when the face is not
\* stressed, and is the face's resultant location otherwise.
C14_OutputsPerFace ==
    outputs # None =>
        /\ Len(outputs[1].vectors) = Len(brep_faces)
        /\ Len(outputs[1].anchors) = Len(brep_faces)
        /\ Len(outputs[1].stress_distributions) = Len(brep_faces)
        /\ Len(outputs[1].sigma_maxs) = Len(brep_faces)
        /\ \A k \in 1..Len(brep_faces) :
              /\ faces[k].id = k - 1
              /\ faces[k].brep = brep_faces[k]
              /\ outputs[1].vectors[k] = truediv(constructed_normal(k), I(10))
              /\ (outputs[1].anchors[k] = None) <=> ~faces[k].is_stressed
              /\ faces[k].is_stressed =>
                    outputs[1].anchors[k] = faces[k].resultant_location
              /\ outputs[1].stress_distributions[k] = faces[k].stress_distribution
              /\ outputs[1].sigma_maxs[k] = sigma_max_label(faces[k].max_stress)

\* RunScript has returned for three different input faces
C14_Witness ==
    /\ outputs # None
    /\ Len(brep_faces) = 3
    /\ brep_faces[1] # brep_faces[2]
    /\ brep_faces[2] # brep_faces[3]
    /\ brep_faces[1] # brep_faces[3]

\* the sum of the stress increments of the calls n.. made on the face of
\* index face_id
RECURSIVE increments_from(_, _)
increments_from(n, face_id) ==
    IF n > Len(calls) THEN Zero
    ELSE RAdd(IF calls[n].face = face_id THEN calls[n].additional_stress ELSE Zero,
              increments_from(n + 1, face_id))

\* the face of index face_id was never a facing or helping face
NeverSelected(face_id) == \A n \in 1..Len(calls) : calls[n].face # face_id

\* C15: after compute_stress_field has returned, every face's max_stress is
\* amplification_factor times its moment-phase unit stress plus the sum of
\* the stress increments applied to it, and a face that was never a facing
\* or helping face has exactly amplification_factor times its unit stress.
C15_MaxStressAccumulates ==
    pc \in {"outputs", "returned"} =>
        \A k \in 1..Len(faces) :
            /\ faces[k].max_stress =
                   RAdd(RMul(amplification_factor, unit_stresses[k]),
                        increments_from(1, k - 1))
            /\ NeverSelected(k - 1) =>
                   faces[k].max_stress = RMul(amplification_factor, unit_stresses[k])

\* a returned run of three faces: one took two positive increments on top of
\* a positive moment-phase stress, one was never selected
C15_Witness ==
    /\ pc = "returned"
    /\ Len(faces) = 3
    /\ \E k \in 1..3 : NeverSelected(k - 1)
    /\ \E k \in 1..3 :
          /\ RLt(Zero, RMul(amplification_factor, unit_stresses[k]))
          /\ \E a, b \in 1..Len(calls) :
                /\ a # b
                /\ calls[a].face = k - 1
                /\ calls[b].face = k - 1
                /\ calls[a].additional_stress = One
                /\ calls[b].additional_stress = One

\* two vectors lie on the same line, parallel or antiparallel
OnSameLine(v, w) == cross(v, w) = ZeroVector

\* the main edge directions of the faces run along exactly two lines
TwoEdgeLines ==
    \E a, b \in 1..Len(faces) :
        /\ ~OnSameLine(faces[a].main_axis, faces[b].main_axis)
        /\ \A k \in 1..Len(faces) :
              \/ OnSameLine(faces[k].main_axis, faces[a].main_axis)
              \/ OnSameLine(faces[k].main_axis, faces[b].main_axis)

\* C16: no two entries of joint.main_axes lie on the same line, parallel or
\* antiparallel, and a joint whose faces' main edge directions run along two
\* lines has exactly two main axes.
C16_DistinctMainAxes ==
    main_axes # None =>
        /\ \A a, b \in 1..Len(main_axes) :
              a # b => ~OnSameLine(main_axes[a], main_axes[b])
        /\ TwoEdgeLines => Len(main_axes) = 2

\* the moment phase is complete: every face has its cutting plane and its
\* stress distribution, moment_weights is set, and every face's max_stress is
\* the one the moment phase assigned plus the increments made since
MomentPhaseDone ==
    /\ Len(stress_volumes) = Len(faces)
    /\ Len(unit_stresses) = Len(faces)
    /\ \A k \in 1..Len(faces) :
          /\ faces[k].stress_face_plane # None
          /\ faces[k].stress_distribution # None
          /\ faces[k].is_stressed
    /\ moment_weights # None
    /\ amplification_factor # None
    /\ \A k \in 1..Len(faces) :
          faces[k].max_stress = RAdd(RMul(amplification_factor, unit_stresses[k]),
                                     increments_from(1, k - 1))

\* C17: every call of increase_stress_distribution starts in a state in
\* which the moment phase is complete for all faces of the joint: planes
\* stored, stress distributions built, moment_weights set and max_stress
\* assigned.
C17_IncreaseAfterMomentPhase ==
    [][calls' # calls => MomentPhaseDone]_vars

\* both calls of a second component have been made in a joint of three faces
C17_Witness ==
    /\ Len(calls) = 4
    /\ calls[3].component = 1
    /\ calls[4].component = 1
    /\ Len(faces) = 3
    /\ err = NoError

\* the moment phase has processed face k: it has returned its unit stress, or
\* it has raised
MomentFaceFailed(k) ==
    /\ pc = "raised"
    /\ screw_axis # None
    /\ moment_weights = None
    /\ Len(unit_stresses) = k - 1

MomentFaceReturned(k) ==
    /\ pc \in {"moment_face", "moment_weights", "unit_moment"}
    /\ k <= Len(unit_stresses)

\* the cutting plane through the rotation point, spanned by the normal and a
\* moment that is not along the normal, does not meet face k
NotIntersected(k) ==
    /\ cross(faces[k].normal, moment_vector) # ZeroVector
    /\ ~moment_cut(faces[k], moment_vector, rotation_center).crv

\* C18: in the moment phase a face that the cutting plane does not intersect
\* is processed without failing, as a single fragment, and has its stress
\* cutting plane stored and its stress distribution built.
C18_UncutFaceIsStressed ==
    \A k \in 1..Len(faces) :
        /\ (MomentFaceFailed(k) /\ k <= Len(faces)) => ~NotIntersected(k)
        /\ (MomentFaceReturned(k) /\ NotIntersected(k)) =>
              /\ Len(moment_cut(faces[k], moment_vector, rotation_center).split_faces) = 1
              /\ faces[k].stress_face_plane # None
              /\ faces[k].stress_distribution # None

\* the two components of the axial force, along main_axes[0] and main_axes[1]
projected_force_on_axe_1 ==
    first_component(main_axes, axial_force,
                    compute_angle_with(main_axes[1], main_axes[2]),
                    compute_angle_with(main_axes[1], axial_force))

projected_force_on_axe_2 == second_component(axial_force, projected_force_on_axe_1)

\* C19: the faces for the component along main_axes[1] are selected with
\* every normal negated and those for the component along main_axes[0] with
\* the normals as constructed, whether or not the other component was
\* dropped.
C19_NegatedForSecondAxis ==
    \A s \in 1..Len(selections) :
        /\ selections[s].force = projected_force_on_axe_2 =>
              \A k \in 1..Len(faces) :
                  selections[s].normals[k] = neg(constructed_normal(k))
        /\ selections[s].force = projected_force_on_axe_1 =>
              \A k \in 1..Len(faces) :
                  selections[s].normals[k] = constructed_normal(k)

\* the cutting plane splits face k into more than one fragment
SplitInFragments(k) ==
    Len(moment_cut(faces[k], moment_vector, rotation_center).split_faces) > 1

\* C20: for a face that the cutting plane splits into more than one
\* fragment, the moment phase selects a fragment as the compression side and
\* goes on to store the face's stress cutting plane, wherever the rotation
\* point lies.
C20_FragmentSelected ==
    \A k \in 1..Len(faces) :
        ((MomentFaceFailed(k) \/ MomentFaceReturned(k)) /\ SplitInFragments(k)) =>
            /\ select_split_face(faces[k],
                    moment_cut(faces[k], moment_vector, rotation_center).split_faces,
                    rotation_center) # 0
            /\ faces[k].stress_face_plane # None

\* compute_stress_field has written nothing to the joint or to the computer
NothingModified ==
    /\ moment_weights = None
    /\ total_tensile_component = Zero
    /\ \A k \in 1..Len(faces) :
          /\ faces[k].max_stress = Zero
          /\ faces[k].stress_distribution = None
          /\ faces[k].resultant_location = None

\* C21: for a joint whose main_axes does not hold exactly two entries,
\* compute_stress_field fails with ValueError having modified neither
\* moment_weights, nor any face's max_stress, stress_distribution or
\* resultant_location, nor total_tensile_component.
C21_InvalidJointNoPartialResults ==
    (pc = "raised" /\ err = "ValueError" /\ main_axes # None /\ Len(main_axes) # 2) =>
        NothingModified

\* the axial phase has failed while processing the component of loop index 1
FailedInSecondComponent ==
    /\ pc = "raised"
    /\ selections # <<>>
    /\ selections[Len(selections)].component = 1

\* C22: when the axial phase fails while processing its second component,
\* every face's normal is the one the face was constructed with when the
\* error leaves compute_stress_field.
C22_NormalsRestoredOnFailure ==
    FailedInSecondComponent =>
        \A k \in 1..Len(faces) : faces[k].normal = constructed_normal(k)

-----------------------------------------------------------------------------
(* A single JointFace and the callers of its methods.  The face is faces[1]; *)
(* i counts the calls made and calls records them.                           *)

FaceInit ==
    /\ pc = "face"
    /\ err = NoError
    /\ \E brep \in 1..Len(BrepFaces) :
          /\ brep_faces = <<brep>>
          /\ faces = <<JointFace(0, BrepFaces[brep].normal_at, brep)>>
    /\ moment_vector = None
    /\ rotation_center = None
    /\ axial_force = None
    /\ screw_axis_in = None
    /\ vectors = <<>>
    /\ moment_weights = None
    /\ main_axes = None
    /\ screw_axis = None
    /\ total_tensile_component = Zero
    /\ i = 0
    /\ stress_volumes = <<>>
    /\ unit_stresses = <<>>
    /\ amplification_factor = None
    /\ projected_forces = <<>>
    /\ facing_face_id = 0
    /\ helping_face_id = 0
    /\ sigmas = <<>>
    /\ selections = <<>>
    /\ calls = <<>>
    /\ outputs = None

\* what a call leaves unchanged
FaceFrame ==
    UNCHANGED <<inputs, vectors, moment_weights, main_axes, screw_axis,
                total_tensile_component, moment_locals, axial_locals, selections,
                outputs>>

FaceCall(op, arg) ==
    /\ pc = "face"
    /\ i < MaxCalls
    /\ i' = i + 1
    /\ calls' = Append(calls, [op |-> op, arg |-> arg])

\* face.py 82-83
SetStressFacePlane ==
    \E depth \in 0..MaxDepth :
        /\ FaceCall("set_stress_face_plane", I(depth))
        /\ faces' = <<set_stress_face_plane(faces[1], Plane(depth))>>
        /\ UNCHANGED <<pc, err>>
        /\ FaceFrame

\* face.py 85-87: a translation along the normal, towards the face or away
TranslateStressFacePlane ==
    \E t \in {I(1), I(-1)} :
        /\ FaceCall("translate_stress_face_plane", t)
        /\ faces' = <<translate_stress_face_plane(faces[1], mul(faces[1].normal, t))>>
        /\ UNCHANGED <<pc, err>>
        /\ FaceFrame

\* face.py 89-165
CreateStressDistribution ==
    /\ FaceCall("create_stress_distribution", None)
    /\ \E r \in {create_stress_distribution(faces[1])} :
          /\ faces' = <<r.face>>
          /\ IF r.err # NoError THEN Raise(r.err) ELSE UNCHANGED <<pc, err>>
    /\ FaceFrame

\* face.py 64-79
IncreaseStressDistribution ==
    \E additional_stress \in {I(v) : v \in 0..MaxSigma} :
        /\ FaceCall("increase_stress_distribution", additional_stress)
        /\ \E r \in {increase_stress_distribution(faces[1], additional_stress)} :
              /\ faces' = <<r.face>>
              /\ IF r.err # NoError THEN Raise(r.err) ELSE UNCHANGED <<pc, err>>
        /\ FaceFrame

NextFace ==
    \/ SetStressFacePlane
    \/ TranslateStressFacePlane
    \/ CreateStressDistribution
    \/ IncreaseStressDistribution

SpecFace == FaceInit /\ [][NextFace]_vars

-----------------------------------------------------------------------------
(* Properties of a single JointFace *)

\* C8: a call of create_stress_distribution that returns leaves a face on
\* which a second call returns too and changes nothing: the same
\* stress_distribution, is_stressed and resultant_location; and the call
\* changes neither the stored cutting plane nor max_stress.
C8_CreateIdempotent ==
    [][(CreateStressDistribution /\ pc' = "face") =>
          /\ create_stress_distribution(faces'[1]).err = NoError
          /\ create_stress_distribution(faces'[1]).face = faces'[1]
          /\ faces'[1].stress_face_plane = faces[1].stress_face_plane
          /\ faces'[1].max_stress = faces[1].max_stress]_vars

\* create_stress_distribution has been called twice in a row on a face whose
\* plane had been moved, and has left a stress distribution
C8_Witness ==
    /\ pc = "face"
    /\ Len(calls) >= 4
    /\ calls[Len(calls)].op = "create_stress_distribution"
    /\ calls[Len(calls) - 1].op = "create_stress_distribution"
    /\ calls[Len(calls) - 2].op = "translate_stress_face_plane"
    /\ faces[1].is_stressed
    /\ faces[1].stress_face_plane[1].origin # ZeroVector

\* set_stress_face_plane was not called before call n
NoPlaneStoredBefore(n) ==
    \A m \in 1..(n - 1) : calls[m].op # "set_stress_face_plane"

\* C13: a call of increase_stress_distribution on a face for which
\* set_stress_face_plane was never called fails with an error: it is the last
\* call made, AttributeError has left it (the face has no solid to read the
\* wireframe of), and the face has no stress distribution.
C13_IncreaseNeedsPlane ==
    \A n \in 1..Len(calls) :
        (calls[n].op = "increase_stress_distribution" /\ NoPlaneStoredBefore(n)) =>
            /\ n = Len(calls)
            /\ pc = "raised"
            /\ err = "AttributeError"
            /\ faces[1].stress_distribution = None
            /\ ~faces[1].is_stressed

\* increase_stress_distribution has been called with a positive stress on a
\* face whose plane was never stored, after a call that moves the plane
C13_Witness ==
    /\ Len(calls) = 2
    /\ calls[1].op = "translate_stress_face_plane"
    /\ calls[2].op = "increase_stress_distribution"
    /\ calls[2].arg = One
    /\ pc = "raised"

\* C23: after construction and after every call that returns normally, the
\* three outputs of the face agree: is_stressed is true exactly when
\* stress_distribution is not empty and exactly when resultant_location is
\* not empty.
C23_OutputsAgree ==
    pc = "face" =>
        /\ faces[1].is_stressed <=> faces[1].stress_distribution # None
        /\ faces[1].is_stressed <=> faces[1].resultant_location # None

\* a face that was stressed has lost its stress distribution in a second
\* create_stress_distribution, after its plane was moved out of the solid
C23_Witness ==
    /\ pc = "face"
    /\ Len(calls) = 4
    /\ calls[1].op = "set_stress_face_plane"
    /\ calls[1].arg = One
    /\ calls[2].op = "create_stress_distribution"
    /\ calls[3].op = "translate_stress_face_plane"
    /\ calls[4].op = "create_stress_distribution"
    /\ ~faces[1].is_stressed

\* the last call made is the first increase_stress_distribution on the face,
\* and it has failed for want of a stress distribution
FirstIncreaseFailed ==
    /\ pc = "raised"
    /\ calls # <<>>
    /\ calls[Len(calls)].op = "increase_stress_distribution"
    /\ \A m \in 1..(Len(calls) - 1) : calls[m].op # "increase_stress_distribution"
    /\ faces[1].stress_distribution = None

\* C24: an increase_stress_distribution that fails because the face has no
\* stored cutting plane or no stress distribution leaves max_stress as it
\* was before the call: 0, the value of construction, when no earlier call
\* has increased it.
C24_FailedIncreaseKeepsMaxStress ==
    FirstIncreaseFailed => faces[1].max_stress = Zero

=============================================================================
